---- MODULE Spec2Model ----
(***************************************************************************)
(* Model of the Addlee matching engine (src/src/lib/matching-engine.js).   *)
(*                                                                         *)
(* Strings are sequences of one-character strings, so that toLowerCase,    *)
(* the character filter of tokenize and the whitespace split are computed  *)
(* character by character.  A property that is absent from a profile       *)
(* object (reads as undefined in the source) is a field that is not in the *)
(* DOMAIN of the record.                                                   *)
(*                                                                         *)
(* Numbers: the source computes in IEEE doubles.  The model computes in    *)
(* fixed point with SCALE units per 1.0, every division and square root    *)
(* rounded to the nearest unit, as the double operations round to the      *)
(* nearest double.                                                         *)
(***************************************************************************)
EXTENDS Integers, Sequences, FiniteSets, TLC

VARIABLES creators, hotels, matches, pc, calls, probe, page

vars == <<creators, hotels, matches, pc, calls, probe, page>>

(***************************************************************************)
(* Fixed-point arithmetic                                                  *)
(***************************************************************************)
SCALE == 10^4

Min(a, b) == IF a <= b THEN a ELSE b

\* a / b rounded to the nearest integer (a >= 0, b > 0)
RoundDiv(a, b) == (2 * a + b) \div (2 * b)

\* Math.round of the fixed-point x >= 0: the nearest integer, halves up
MathRound(x) == (x + SCALE \div 2) \div SCALE

\* <<q, r>> with a * b = q * c + r and 0 <= r < c, for 0 <= a < c, computed bit
\* by bit of b so that no intermediate value exceeds 2 * c
RECURSIVE MulDivRem(_, _, _)
MulDivRem(a, b, c) ==
    IF b = 0 THEN <<0, 0>>
    ELSE LET h  == MulDivRem(a, b \div 2, c)
             r1 == 2 * h[2]
             q1 == 2 * h[1] + (IF r1 >= c THEN 1 ELSE 0)
             r2 == (IF r1 >= c THEN r1 - c ELSE r1) + (IF b % 2 = 1 THEN a ELSE 0)
         IN  IF r2 >= c THEN <<q1 + 1, r2 - c>> ELSE <<q1, r2>>

\* a * b / c rounded to the nearest integer (a, b >= 0, c > 0)
MulDiv(a, b, c) ==
    LET qr == MulDivRem(a % c, b, c)
    IN  (a \div c) * b + qr[1] + (IF 2 * qr[2] >= c THEN 1 ELSE 0)

\* the largest r in lo..hi with r * r <= x
RECURSIVE FloorSqrt(_, _, _)
FloorSqrt(x, lo, hi) ==
    IF lo >= hi THEN lo
    ELSE LET mid == (lo + hi + 1) \div 2
         IN  IF mid * mid <= x THEN FloorSqrt(x, mid, hi)
             ELSE FloorSqrt(x, lo, mid - 1)

\* Math.sqrt of x given in SCALE^2 units, in SCALE units, rounded to nearest
MathSqrt(x) ==
    LET r == FloorSqrt(x, 0, 46340)
    IN  IF x - r * r > r THEN r + 1 ELSE r

\* SCALE * ln(k), rounded, for k = 1..12
LnTable == <<0, 6931, 10986, 13863, 16094, 17918, 19459, 20794, 21972,
             23026, 23979, 24849>>

\* Math.log(n / df) for integers 1 <= df <= n
MathLog(n, df) == LnTable[n] - LnTable[df]

\* the sum of f[e] over the elements e of S
RECURSIVE SumOver(_, _)
SumOver(S, f) ==
    IF S = {} THEN 0
    ELSE LET e == CHOOSE x \in S : TRUE
         IN  f[e] + SumOver(S \ {e}, f)

(***************************************************************************)
(* Strings                                                                 *)
(***************************************************************************)
LowerLetters == <<"a", "b", "c", "d", "e", "f", "g", "h", "i", "j", "k", "l", "m",
                  "n", "o", "p", "q", "r", "s", "t", "u", "v", "w", "x", "y", "z">>
UpperLetters == <<"A", "B", "C", "D", "E", "F", "G", "H", "I", "J", "K", "L", "M",
                  "N", "O", "P", "Q", "R", "S", "T", "U", "V", "W", "X", "Y", "Z">>
DigitChars == <<"0", "1", "2", "3", "4", "5", "6", "7", "8", "9">>

Range(s) == {s[i] : i \in DOMAIN s}

WhitespaceChars == {" ", "\t", "\n"}
LowerAlnumChars == Range(LowerLetters) \cup Range(DigitChars)

\* the lower-case letter of each upper-case letter
LowerOf ==
    [c \in Range(UpperLetters) |->
        LowerLetters[CHOOSE i \in DOMAIN UpperLetters : UpperLetters[i] = c]]

IsWhitespace(c) == c \in WhitespaceChars
IsLowerAlnum(c) == c \in LowerAlnumChars

toLowerChar(c) == IF c \in DOMAIN LowerOf THEN LowerOf[c] ELSE c

toLowerCase(s) == [i \in DOMAIN s |-> toLowerChar(s[i])]

\* String.prototype.replace(/[^a-z0-9\s]/g, '')
StripPunctuation(s) == SelectSeq(s, LAMBDA c : IsLowerAlnum(c) \/ IsWhitespace(c))

\* String.prototype.split(/\s+/): the pieces between the maximal runs of
\* whitespace, the empty pieces at either end included
RECURSIVE SplitFrom(_, _, _, _)
SplitFrom(s, i, cur, inSep) ==
    IF i > Len(s) THEN <<cur>>
    ELSE IF IsWhitespace(s[i])
         THEN IF inSep THEN SplitFrom(s, i + 1, cur, TRUE)
              ELSE <<cur>> \o SplitFrom(s, i + 1, <<>>, TRUE)
         ELSE SplitFrom(s, i + 1, Append(cur, s[i]), FALSE)

SplitWhitespace(s) == SplitFrom(s, 1, <<>>, FALSE)

\* Array.prototype.join
RECURSIVE Join(_, _)
Join(parts, sep) ==
    IF Len(parts) = 0 THEN <<>>
    ELSE IF Len(parts) = 1 THEN parts[1]
    ELSE parts[1] \o sep \o Join(Tail(parts), sep)

(***************************************************************************)
(* Text vectorizer                                                         *)
(***************************************************************************)
\* mutant: only the empty pieces are filtered out, w.length > 0
tokenizeKeepShort(text) ==
    SelectSeq(SplitWhitespace(StripPunctuation(toLowerCase(text))),
              LAMBDA w : Len(w) > 0)

tokenize(text) ==
    SelectSeq(SplitWhitespace(StripPunctuation(toLowerCase(text))),
              LAMBDA w : Len(w) > 1)

\* the value NaN, beside the fixed-point numbers, which are all >= 0
NaN == 0 - 1

\* The maps tf, idf and the vectors are plain objects ({}), so reading a key
\* that is not an own property finds the properties of Object.prototype.  Of
\* their names only "constructor" is made of lowercase letters, so it is the
\* only one a token can be; obj["constructor"] then reads a function, which
\* is truthy and makes a string or NaN of the arithmetic it enters.
ObjectPrototypeKeys == {<<"c", "o", "n", "s", "t", "r", "u", "c", "t", "o", "r">>}
Inherited(k) == k \in ObjectPrototypeKeys

\* token -> count / total, for the tokens that occur; (tf[token] || 0) + 1 is
\* a string for an inherited key, and NaN once divided
termFrequency(tokens) ==
    LET total == IF Len(tokens) = 0 THEN 1 ELSE Len(tokens)
        count(t) == Cardinality({i \in DOMAIN tokens : tokens[i] = t})
    IN  [t \in Range(tokens) |->
            IF Inherited(t) THEN NaN ELSE RoundDiv(count(t) * SCALE, total)]

\* token -> ln(n / df) + 1, for the tokens of the documents; (idf[word] || 0)
\* + 1 is a string for an inherited key, and its logarithm NaN
inverseDocumentFrequency(documents) ==
    LET n     == Len(documents)
        seen  == [d \in DOMAIN documents |-> Range(tokenize(documents[d]))]
        words == UNION {seen[d] : d \in DOMAIN documents}
        df(w) == Cardinality({d \in DOMAIN documents : w \in seen[d]})
    IN  [w \in words |-> IF Inherited(w) THEN NaN ELSE MathLog(n, df(w)) + SCALE]

\* if (idf[word]): an own value other than 0 and NaN, or an inherited function
Truthy(obj, k) ==
    IF k \in DOMAIN obj THEN obj[k] # 0 /\ obj[k] # NaN ELSE Inherited(k)

tfidfVector(text, idf) ==
    LET tf == termFrequency(tokenize(text))
    IN  [w \in {k \in DOMAIN tf : Truthy(idf, k)} |->
            IF tf[w] = NaN \/ w \notin DOMAIN idf THEN NaN
            ELSE RoundDiv(tf[w] * idf[w], SCALE)]

(***************************************************************************)
(* Similarity scorer                                                       *)
(***************************************************************************)
\* mutant: b is read from vecA, a copy of the line above it
cosineSimilarityCopied(vecA, vecB) ==
    LET allKeys == DOMAIN vecA \cup DOMAIN vecB
        a(k)    == IF Truthy(vecA, k) THEN vecA[k] ELSE 0
        b(k)    == IF Truthy(vecA, k) THEN vecA[k] ELSE 0
        isNaN   == \E k \in allKeys : k \notin DOMAIN vecA /\ Truthy(vecA, k)
        dot     == SumOver(allKeys, [k \in allKeys |-> a(k) * b(k)])
        magA    == SumOver(allKeys, [k \in allKeys |-> a(k) * a(k)])
        magB    == SumOver(allKeys, [k \in allKeys |-> b(k) * b(k)])
        magnitude == MathSqrt(magA) * MathSqrt(magB)
    IN  IF isNaN THEN NaN
        ELSE IF magnitude = 0 THEN 0 ELSE MulDiv(dot, SCALE, magnitude)

cosineSimilarity(vecA, vecB) ==
    LET allKeys == DOMAIN vecA \cup DOMAIN vecB
        \* vec[key] || 0 of an own key; an inherited key reads a function
        a(k)    == IF Truthy(vecA, k) THEN vecA[k] ELSE 0
        b(k)    == IF Truthy(vecB, k) THEN vecB[k] ELSE 0
        isNaN   == \E k \in allKeys : \/ k \notin DOMAIN vecA /\ Truthy(vecA, k)
                                      \/ k \notin DOMAIN vecB /\ Truthy(vecB, k)
        dot     == SumOver(allKeys, [k \in allKeys |-> a(k) * b(k)])
        magA    == SumOver(allKeys, [k \in allKeys |-> a(k) * a(k)])
        magB    == SumOver(allKeys, [k \in allKeys |-> b(k) * b(k)])
        magnitude == MathSqrt(magA) * MathSqrt(magB)
    IN  IF isNaN THEN NaN
        ELSE IF magnitude = 0 THEN 0 ELSE MulDiv(dot, SCALE, magnitude)

LowerTagSet(tags) == {toLowerCase(tags[i]) : i \in DOMAIN tags}

\* mutant: the labels are compared as written, without toLowerCase
tagOverlapScoreCaseSensitive(tagsA, tagsB) ==
    LET setA    == Range(tagsA)
        setB    == Range(tagsB)
        overlap == Cardinality({t \in setA : t \in setB})
        union   == Cardinality(setA \cup setB)
    IN  IF union = 0 THEN 0 ELSE RoundDiv(overlap * SCALE, union)

tagOverlapScore(tagsA, tagsB) ==
    LET setA    == LowerTagSet(tagsA)
        setB    == LowerTagSet(tagsB)
        overlap == Cardinality({t \in setA : t \in setB})
        union   == Cardinality(setA \cup setB)
    IN  IF union = 0 THEN 0 ELSE RoundDiv(overlap * SCALE, union)

(***************************************************************************)
(* Profiles                                                                *)
(***************************************************************************)
\* profile.<f> || '' : the field, or the empty string when it is absent
TextField(profile, f) == IF f \in DOMAIN profile THEN profile[f] ELSE <<>>

\* profile.tags || [] : the tag list, or the empty list when it is absent
TagsOf(profile) == IF "tags" \in DOMAIN profile THEN profile.tags ELSE <<>>

\* mutant: the engagement indicator is added to the scored text
buildProfileTextWithEngagement(profile) ==
    LET parts == <<TextField(profile, "name"), TextField(profile, "description")>>
                 \o TagsOf(profile)
                 \o <<TextField(profile, "niche"), TextField(profile, "location"),
                      TextField(profile, "type"), TextField(profile, "engagement")>>
    IN  Join(parts, <<" ">>)

buildProfileText(profile) ==
    LET parts == <<TextField(profile, "name"), TextField(profile, "description")>>
                 \o TagsOf(profile)
                 \o <<TextField(profile, "niche"), TextField(profile, "location"),
                      TextField(profile, "type")>>
    IN  Join(parts, <<" ">>)

(***************************************************************************)
(* Explanation                                                             *)
(***************************************************************************)
\* `${profile.name}` : an absent name is rendered as the text "undefined"
NameInTemplate(profile) ==
    IF "name" \in DOMAIN profile THEN profile.name
    ELSE <<"u", "n", "d", "e", "f", "i", "n", "e", "d">>

DigitSet == Range(DigitChars)
DigitValue(c) == (CHOOSE i \in DOMAIN DigitChars : DigitChars[i] = c) - 1
IsDigit(c) == c \in DigitSet

\* the index of the first character of s at or after i that is not a digit
RECURSIVE DigitsEnd(_, _)
DigitsEnd(s, i) ==
    IF i <= Len(s) /\ IsDigit(s[i]) THEN DigitsEnd(s, i + 1) ELSE i

\* the value of the digits s[i..j-1] as an integer
RECURSIVE IntDigits(_, _, _)
IntDigits(s, i, j) ==
    IF i >= j THEN 0 ELSE IntDigits(s, i, j - 1) * 10 + DigitValue(s[j - 1])

\* the value of the fraction digits s[i..j-1] in SCALE units, the digit at i
\* worth `place` units (digits below one unit are dropped)
RECURSIVE FracDigits(_, _, _, _)
FracDigits(s, i, j, place) ==
    IF i >= j \/ place = 0 THEN 0
    ELSE DigitValue(s[i]) * place + FracDigits(s, i + 1, j, place \div 10)

RECURSIVE SkipWhitespace(_, _)
SkipWhitespace(s, i) ==
    IF i <= Len(s) /\ IsWhitespace(s[i]) THEN SkipWhitespace(s, i + 1) ELSE i

\* parseFloat(s): the longest prefix [ws][sign]digits[.digits] or [ws][sign].digits,
\* as [nan |-> FALSE, value |-> SCALE units], or [nan |-> TRUE] when there is
\* none.  Exponents and "Infinity" are not modelled.
parseFloat(s) ==
    LET start   == SkipWhitespace(s, 1)
        signed  == start <= Len(s) /\ s[start] \in {"+", "-"}
        i0      == IF signed THEN start + 1 ELSE start
        i1      == DigitsEnd(s, i0)
        hasDot  == i1 <= Len(s) /\ s[i1] = "."
        i2      == IF hasDot THEN DigitsEnd(s, i1 + 1) ELSE i1
        nFrac   == IF hasDot THEN i2 - (i1 + 1) ELSE 0
        abs     == IntDigits(s, i0, i1) * SCALE
                   + (IF hasDot THEN FracDigits(s, i1 + 1, i2, SCALE \div 10) ELSE 0)
    IN  IF i1 = i0 /\ nFrac = 0 THEN [nan |-> TRUE, value |-> 0]
        ELSE [nan |-> FALSE,
              value |-> IF signed /\ s[start] = "-" THEN 0 - abs ELSE abs]

\* the elements of s in order, each kept at its first occurrence only
\* (the iteration order of new Set(s))
RECURSIVE Dedup(_)
Dedup(s) ==
    IF Len(s) = 0 THEN <<>>
    ELSE LET front == Dedup(SubSeq(s, 1, Len(s) - 1))
             last  == s[Len(s)]
         IN  IF last \in Range(front) THEN front ELSE Append(front, last)

\* mutant: the comparison is >= 4
HighEngagementAtLeast(creator) ==
    /\ "engagement" \in DOMAIN creator
    /\ creator.engagement # <<>>
    /\ ~parseFloat(creator.engagement).nan
    /\ parseFloat(creator.engagement).value >= 4 * SCALE

\* creator.engagement && parseFloat(creator.engagement) > 4
HighEngagement(creator) ==
    /\ "engagement" \in DOMAIN creator
    /\ creator.engagement # <<>>
    /\ ~parseFloat(creator.engagement).nan
    /\ parseFloat(creator.engagement).value > 4 * SCALE

SharedClause(shared) ==
    <<"Both share interests in ">> \o Join(shared, <<",", " ">>)

StrongClause(creator, hotel) ==
    NameInTemplate(creator) \o <<"'s content style aligns strongly with ">>
    \o NameInTemplate(hotel) \o <<"'s brand">>

GoodClause(creator, hotel) ==
    NameInTemplate(creator) \o <<"'s profile shows good alignment with ">>
    \o NameInTemplate(hotel) \o <<"'s target audience">>

EngagementClause(creator) ==
    <<"High engagement rate (">> \o creator.engagement
    \o <<") suggests strong audience connection">>

FallbackClause(creator, hotel) ==
    NameInTemplate(creator)
    \o <<"'s creative approach could bring a fresh perspective to ">>
    \o NameInTemplate(hotel) \o <<"'s content strategy">>

\* the clauses pushed to `parts`, in order
ExplanationParts(creator, hotel, textSim) ==
    LET creatorTags == Dedup([i \in DOMAIN TagsOf(creator) |->
                                 toLowerCase(TagsOf(creator)[i])])
        hotelTags   == LowerTagSet(TagsOf(hotel))
        shared      == SelectSeq(creatorTags, LAMBDA t : t \in hotelTags)
        p1 == IF Len(shared) > 0 THEN <<SharedClause(shared)>> ELSE <<>>
        p2 == IF 10 * textSim > 3 * SCALE THEN <<StrongClause(creator, hotel)>>
              ELSE IF 100 * textSim > 15 * SCALE THEN <<GoodClause(creator, hotel)>>
              ELSE <<>>
        p3 == IF HighEngagement(creator) THEN <<EngagementClause(creator)>> ELSE <<>>
        parts == p1 \o p2 \o p3
    IN  IF Len(parts) = 0 THEN <<FallbackClause(creator, hotel)>> ELSE parts

\* mutant: the closing period is left out
generateExplanationUnclosed(creator, hotel, textSim, tagScore) ==
    Join(ExplanationParts(creator, hotel, textSim), <<".", " ">>)

generateExplanation(creator, hotel, textSim, tagScore) ==
    Join(ExplanationParts(creator, hotel, textSim), <<".", " ">>) \o <<".">>

(***************************************************************************)
(* Matcher                                                                 *)
(***************************************************************************)
SCORE_OFFSET == 50
MAX_DISPLAY_SCORE == 99

\* mutant: the two weights exchanged
RawScoreSwapped(textSimilarity, tagScore) ==
    RoundDiv(textSimilarity * 4 + tagScore * 6, 10)

\* mutant: the tag overlap counted against the pair
RawScoreTagInverted(textSimilarity, tagScore) ==
    RoundDiv(textSimilarity * 6 + (SCALE - tagScore) * 4, 10)

\* textSimilarity * 0.6 + tagScore * 0.4
RawScore(textSimilarity, tagScore) == RoundDiv(textSimilarity * 6 + tagScore * 4, 10)

\* mutant: the percentage wraps around at 100 instead of stopping at the cap
DisplayScoreWrapped(score) ==
    MathRound(score * 100 + SCORE_OFFSET * SCALE) % (MAX_DISPLAY_SCORE + 1)

\* Math.min(Math.round(score * 100 + SCORE_OFFSET), MAX_DISPLAY_SCORE)
DisplayScore(score) ==
    Min(MathRound(score * 100 + SCORE_OFFSET * SCALE), MAX_DISPLAY_SCORE)

\* mutant: the result holds a copy of the profile with its tag list defaulted
ResultProfileDefaulted(entry) ==
    [f \in DOMAIN entry.profile \cup {"tags"} |->
        IF f = "tags" THEN TagsOf(entry.profile) ELSE entry.profile[f]]

\* creator: creator.profile, hotel: hotel.profile : the result refers to the
\* profile object of the input collection
ResultProfile(entry) == entry.profile

\* the object pushed for one pair of the nested loops
MatchOf(creator, hotel) ==
    LET textSimilarity == cosineSimilarity(creator.vector, hotel.vector)
        tagScore       == tagOverlapScore(TagsOf(creator.profile),
                                          TagsOf(hotel.profile))
        score          == RawScore(textSimilarity, tagScore)
    IN  [creator        |-> ResultProfile(creator),
         hotel          |-> ResultProfile(hotel),
         score          |-> DisplayScore(score),
         textSimilarity |-> MathRound(textSimilarity * 100),
         tagOverlap     |-> MathRound(tagScore * 100),
         explanation    |-> generateExplanation(creator.profile, hotel.profile,
                                                textSimilarity, tagScore)]

\* the profile of each element of `profiles` with its TF-IDF vector
Vectors(profiles, idf) ==
    [i \in DOMAIN profiles |->
        [profile |-> profiles[i],
         vector  |-> tfidfVector(buildProfileText(profiles[i]), idf)]]

\* mutant: pairs with nothing in common are skipped
CrossPairsPruned(creatorVectors, hotelVectors) ==
    LET nh  == Len(hotelVectors)
        all == [k \in 1..(Len(creatorVectors) * nh) |->
                   MatchOf(creatorVectors[((k - 1) \div nh) + 1],
                           hotelVectors[((k - 1) % nh) + 1])]
    IN  SelectSeq(all, LAMBDA m : m.textSimilarity > 0 \/ m.tagOverlap > 0)

\* the nested loops: creator-major, hotel-minor
CrossPairs(creatorVectors, hotelVectors) ==
    LET nh == Len(hotelVectors)
    IN  [k \in 1..(Len(creatorVectors) * nh) |->
            MatchOf(creatorVectors[((k - 1) \div nh) + 1],
                    hotelVectors[((k - 1) % nh) + 1])]

\* mutant: the comparator reversed, (a, b) => a.score - b.score
RECURSIVE InsertMatchAscending(_, _)
InsertMatchAscending(sorted, m) ==
    IF Len(sorted) = 0 THEN <<m>>
    ELSE IF Head(sorted).score - m.score > 0
         THEN <<m>> \o sorted
         ELSE <<Head(sorted)>> \o InsertMatchAscending(Tail(sorted), m)

\* mutant: an element is placed in front of its equals
RECURSIVE InsertMatchBeforeTies(_, _)
InsertMatchBeforeTies(sorted, m) ==
    IF Len(sorted) = 0 THEN <<m>>
    ELSE IF m.score - Head(sorted).score >= 0
         THEN <<m>> \o sorted
         ELSE <<Head(sorted)>> \o InsertMatchBeforeTies(Tail(sorted), m)

\* m inserted into the sorted list behind every element it does not precede
RECURSIVE InsertMatch(_, _)
InsertMatch(sorted, m) ==
    IF Len(sorted) = 0 THEN <<m>>
    ELSE IF m.score - Head(sorted).score > 0
         THEN <<m>> \o sorted
         ELSE <<Head(sorted)>> \o InsertMatch(Tail(sorted), m)

\* matches.sort((a, b) => b.score - a.score): a stable sort
RECURSIVE SortMatches(_)
SortMatches(ms) ==
    IF Len(ms) = 0 THEN <<>>
    ELSE InsertMatch(SortMatches(SubSeq(ms, 1, Len(ms) - 1)), ms[Len(ms)])

computeMatches(cs, hs) ==
    LET allProfiles    == cs \o hs
        allTexts       == [i \in DOMAIN allProfiles |-> buildProfileText(allProfiles[i])]
        idf            == inverseDocumentFrequency(allTexts)
        creatorVectors == Vectors(cs, idf)
        hotelVectors   == Vectors(hs, idf)
    IN  SortMatches(CrossPairs(creatorVectors, hotelVectors))

(***************************************************************************)
(* Inputs: the profiles the two collections are drawn from.  They follow   *)
(* the shape of sampleCreators and sampleHotels, shortened, and add        *)
(* partial profiles (absent name, tags or description).                    *)
(***************************************************************************)
CreatorAnn ==
    [name |-> <<"A", "n", "n">>,
     description |-> <<"L", "u", "x", "u", "r", "y", " ", "s", "p", "a", ".">>,
     tags |-> <<<<"S", "p", "a">>, <<"L", "u", "x", "u", "r", "y">>>>,
     niche |-> <<"S", "p", "a">>,
     location |-> <<"N", "Y">>,
     type |-> <<"c", "r", "e", "a", "t", "o", "r">>,
     engagement |-> <<"4", ".", "2", "%">>]

CreatorBo ==
    [name |-> <<"B", "o">>,
     description |-> <<"c", "i", "t", "y", " ", "n", "i", "g", "h", "t", "l", "i", "f", "e">>,
     tags |-> <<<<"U", "r", "b", "a", "n">>>>,
     location |-> <<"N", "Y">>,
     engagement |-> <<"3", ".", "9", "%">>]

CreatorPartial ==
    [description |-> <<"s", "p", "a">>]

CreatorAl ==
    [name |-> <<"A", "l">>,
     description |-> <<"s", "p", "a", " ", "u", "r", "b", "a", "n", " ", "c", "i", "t", "y", " ", "l", "u", "x", "u", "r", "y">>,
     tags |-> <<<<"p", "o", "o", "l">>, <<"S", "p", "a">>, <<"S", "P", "A">>>>,
     type |-> <<"c", "r", "e", "a", "t", "o", "r">>,
     engagement |-> <<"4">>]

HotelInn ==
    [name |-> <<"I", "n", "n">>,
     description |-> <<"q", "u", "i", "e", "t", " ", "s", "p", "a", " ", "r", "e", "s", "o", "r", "t">>,
     tags |-> <<<<"s", "p", "a">>, <<"P", "o", "o", "l">>>>,
     location |-> <<"N", "Y">>,
     type |-> <<"h", "o", "t", "e", "l">>,
     rating |-> <<"4", ".", "8">>,
     collabs |-> <<"1", "2">>]

HotelLux ==
    [name |-> <<"L", "u", "x">>,
     description |-> <<"g", "o", "l", "f">>,
     tags |-> <<<<"G", "o", "l", "f">>>>,
     location |-> <<"N", "Y">>,
     rating |-> <<"4", ".", "6">>]

HotelTwin ==
    [name |-> <<"A", "n", "n">>,
     description |-> <<"L", "u", "x", "u", "r", "y", " ", "s", "p", "a", ".">>,
     tags |-> <<<<"S", "p", "a">>, <<"L", "u", "x", "u", "r", "y">>>>,
     niche |-> <<"S", "p", "a">>,
     location |-> <<"N", "Y">>,
     type |-> <<"c", "r", "e", "a", "t", "o", "r">>]

\* a creator whose description holds the word "constructor"
CreatorDev ==
    [name |-> <<"D", "e", "v">>,
     description |-> <<"c", "o", "n", "s", "t", "r", "u", "c", "t", "o", "r", " ", "s", "p", "a">>]

CreatorCatalogue == {CreatorAnn, CreatorBo, CreatorPartial, CreatorAl}
HotelCatalogue == {HotelInn, HotelLux, HotelTwin}

MaxCreators == 2
MaxHotels == 2

\* the invocations of computeMatches that are live at once
MaxCalls == 2
CallIds == 1..MaxCalls

\* an invocation that has not been entered: no arguments, no locals
IdleCall ==
    [pc |-> "idle", creators |-> <<>>, hotels |-> <<>>, idf |-> <<>>,
     creatorVectors |-> <<>>, hotelVectors |-> <<>>, matches |-> <<>>]

\* no function of the module is being applied on its own
NoProbe == [fn |-> "none"]

\* the page as useState initialises it, with no timer set
InitialPage ==
    [matches |-> <<>>, isComputing |-> FALSE, hasRun |-> FALSE,
     filter |-> "all", minScore |-> 0, timers |-> 0]

(***************************************************************************)
(* The caller: it builds the two collections, each of distinct profiles    *)
(* (a profile carries an id of its own in the sample data), then calls     *)
(* computeMatches once.  matches is the returned list.                     *)
(***************************************************************************)
Init ==
    /\ creators = <<>>
    /\ hotels = <<>>
    /\ matches = <<>>
    /\ pc = "input"
    /\ calls = [i \in CallIds |-> IdleCall]
    /\ probe = NoProbe
    /\ page = InitialPage

AddCreator(p) ==
    /\ pc = "input"
    /\ Len(creators) < MaxCreators
    /\ p \notin Range(creators)
    /\ creators' = Append(creators, p)
    /\ UNCHANGED <<hotels, matches, pc, calls, probe, page>>

AddHotel(p) ==
    /\ pc = "input"
    /\ Len(hotels) < MaxHotels
    /\ p \notin Range(hotels)
    /\ hotels' = Append(hotels, p)
    /\ UNCHANGED <<creators, matches, pc, calls, probe, page>>

Call ==
    /\ pc = "input"
    /\ matches' = computeMatches(creators, hotels)
    /\ pc' = "done"
    /\ UNCHANGED <<creators, hotels, calls, probe, page>>

Next ==
    \/ \E p \in CreatorCatalogue : AddCreator(p)
    \/ \E p \in HotelCatalogue : AddHotel(p)
    \/ Call

Spec == Init /\ [][Next]_vars

(***************************************************************************)
(* Several invocations of computeMatches, each advancing statement by      *)
(* statement and interleaved with the others in any order.  calls[i] holds *)
(* the arguments and the locals (idf, creatorVectors, hotelVectors,        *)
(* matches) of invocation i; the module has no variable outside them.  An  *)
(* invocation that has returned may be entered again with other arguments. *)
(***************************************************************************)
\* the argument pairs <<creators, hotels>> the invocations are entered with
CallInputs ==
    {<<<<CreatorAnn, CreatorAl>>, <<HotelInn>>>>,
     <<<<CreatorDev>>, <<HotelInn>>>>,
     <<<<>>, <<HotelInn>>>>}

\* allProfiles.map(buildProfileText)
AllTexts(cs, hs) ==
    LET allProfiles == cs \o hs
    IN  [k \in DOMAIN allProfiles |-> buildProfileText(allProfiles[k])]

\* mutant: idf is kept at module level and built by the first invocation only
CallIdfShared(i) ==
    LET built == {j \in CallIds \ {i} : calls[j].pc \notin {"idle", "idf"}}
    IN  IF built # {} THEN calls[CHOOSE j \in built : TRUE].idf
        ELSE inverseDocumentFrequency(AllTexts(calls[i].creators, calls[i].hotels))

\* const idf = inverseDocumentFrequency(allTexts), of invocation i
CallIdf(i) ==
    inverseDocumentFrequency(AllTexts(calls[i].creators, calls[i].hotels))

Enter(i, cs, hs) ==
    /\ calls[i].pc \in {"idle", "done"}
    /\ calls' = [calls EXCEPT ![i] =
                    [IdleCall EXCEPT !.pc = "idf", !.creators = cs, !.hotels = hs]]
    /\ UNCHANGED <<creators, hotels, matches, pc, probe, page>>

BuildIdf(i) ==
    /\ calls[i].pc = "idf"
    /\ calls' = [calls EXCEPT ![i].idf = CallIdf(i), ![i].pc = "vectors"]
    /\ UNCHANGED <<creators, hotels, matches, pc, probe, page>>

BuildVectors(i) ==
    /\ calls[i].pc = "vectors"
    /\ calls' = [calls EXCEPT
                    ![i].creatorVectors = Vectors(calls[i].creators, calls[i].idf),
                    ![i].hotelVectors = Vectors(calls[i].hotels, calls[i].idf),
                    ![i].pc = "pairs"]
    /\ UNCHANGED <<creators, hotels, matches, pc, probe, page>>

ScorePairs(i) ==
    /\ calls[i].pc = "pairs"
    /\ calls' = [calls EXCEPT
                    ![i].matches = CrossPairs(calls[i].creatorVectors,
                                              calls[i].hotelVectors),
                    ![i].pc = "sort"]
    /\ UNCHANGED <<creators, hotels, matches, pc, probe, page>>

SortAndReturn(i) ==
    /\ calls[i].pc = "sort"
    /\ calls' = [calls EXCEPT ![i].matches = SortMatches(calls[i].matches),
                              ![i].pc = "done"]
    /\ UNCHANGED <<creators, hotels, matches, pc, probe, page>>

NextCalls ==
    \/ \E i \in CallIds : \E in \in CallInputs : Enter(i, in[1], in[2])
    \/ \E i \in CallIds : BuildIdf(i)
    \/ \E i \in CallIds : BuildVectors(i)
    \/ \E i \in CallIds : ScorePairs(i)
    \/ \E i \in CallIds : SortAndReturn(i)

SpecCalls == Init /\ [][NextCalls]_vars

(***************************************************************************)
(* The functions of the module applied on their own: one application of    *)
(* tagOverlapScore, cosineSimilarity, tokenize or the score arithmetic of  *)
(* computeMatches to arguments drawn from the sets below.  probe holds the *)
(* function, its arguments and, once it has returned, its result.          *)
(***************************************************************************)
\* the sequences over S of length at most n
RECURSIVE SeqsUpTo(_, _)
SeqsUpTo(S, n) ==
    IF n = 0 THEN {<<>>}
    ELSE LET shorter == SeqsUpTo(S, n - 1)
         IN  shorter \cup {Append(t, x) : t \in {u \in shorter : Len(u) = n - 1},
                                          x \in S}

\* tag lists: labels that differ in case only, and labels that differ
MaxTags == 2
TagPool == {<<"S", "p", "a">>, <<"s", "p", "a">>, <<"P", "o", "o", "l">>,
            <<"g", "o", "l", "f">>}
TagLists == SeqsUpTo(TagPool, MaxTags)

\* sparse vectors: every key absent, or present with weight 0, 0.5 or 1.5; one
\* key is the name of a property every object inherits
VectorKeys == {<<"a">>, <<"b">>} \cup ObjectPrototypeKeys
VectorWeights == {0, SCALE \div 2, (3 * SCALE) \div 2}
SparseVectors == UNION {[K -> VectorWeights] : K \in SUBSET VectorKeys}

\* texts: a lowercase letter, an uppercase letter, a digit, a blank and a
\* punctuation mark
MaxTextLen == 5
TextChars == {"a", "B", "7", " ", "-"}
Texts == SeqsUpTo(TextChars, MaxTextLen)

\* cosine similarities and tag overlaps, in SCALE units
SimilarityGrid == {0, SCALE \div 8, SCALE \div 3, SCALE \div 2, SCALE - 1, SCALE}
TagScoreGrid == {0, RoundDiv(SCALE, 3), SCALE \div 2, RoundDiv(2 * SCALE, 3), SCALE}

NewProbe(f, a) == [fn |-> f, args |-> a, done |-> FALSE, out |-> <<>>]

InitFns ==
    /\ creators = <<>>
    /\ hotels = <<>>
    /\ matches = <<>>
    /\ pc = "input"
    /\ calls = [i \in CallIds |-> IdleCall]
    /\ page = InitialPage
    /\ \/ probe \in {NewProbe("tagOverlapScore", <<a, b>>) : a, b \in TagLists}
       \/ probe \in {NewProbe("cosineSimilarity", <<a, b>>) : a, b \in SparseVectors}
       \/ probe \in {NewProbe("tokenize", <<t>>) : t \in Texts}
       \/ probe \in {NewProbe("score", <<ts, a, b>>) :
                         ts \in SimilarityGrid, a \in TagScoreGrid, b \in TagScoreGrid}

\* score and percentage of one pair, from its two sub-scores
ScoreOf(textSimilarity, tagScore) ==
    LET score == RawScore(textSimilarity, tagScore)
    IN  [score |-> score, percentage |-> DisplayScore(score)]

Return(value) ==
    /\ probe' = [probe EXCEPT !.done = TRUE, !.out = value]
    /\ UNCHANGED <<creators, hotels, matches, pc, calls, page>>

ApplyTagOverlapScore ==
    /\ probe.fn = "tagOverlapScore" /\ ~probe.done
    /\ Return(tagOverlapScore(probe.args[1], probe.args[2]))

ApplyCosineSimilarity ==
    /\ probe.fn = "cosineSimilarity" /\ ~probe.done
    /\ Return(cosineSimilarity(probe.args[1], probe.args[2]))

ApplyTokenize ==
    /\ probe.fn = "tokenize" /\ ~probe.done
    /\ Return(tokenize(probe.args[1]))

\* two pairs of equal text similarity are scored
ApplyScore ==
    /\ probe.fn = "score" /\ ~probe.done
    /\ Return(<<ScoreOf(probe.args[1], probe.args[2]),
                ScoreOf(probe.args[1], probe.args[3])>>)

NextFns ==
    \/ ApplyTagOverlapScore
    \/ ApplyCosineSimilarity
    \/ ApplyTokenize
    \/ ApplyScore

SpecFns == InitFns /\ [][NextFns]_vars

(***************************************************************************)
(* The demo page.  page holds the component's state (matches, isComputing, *)
(* hasRun, filter, minScore) and the number of callbacks that setTimeout   *)
(* has scheduled and the event loop has not run yet (timers).  An event    *)
(* handler or a timer callback runs to completion and the state updates it *)
(* makes are committed together, so each is one step.  A control that is   *)
(* not rendered, or is disabled, receives no event.                        *)
(***************************************************************************)
\* the sample data the page passes to computeMatches, shortened
SampleCreators == <<CreatorAnn, CreatorAl>>
SampleHotels == <<HotelInn, HotelLux>>

\* const results = computeMatches(sampleCreators, sampleHotels)
SampleResults == computeMatches(SampleCreators, SampleHotels)

\* invocations of runMatching whose callback may be outstanding at a time
MaxTimers == 2

Filters == {"all", "top", "good"}
SliderMin == 0
SliderMax == 95
TOP_SCORE == 80
GOOD_SCORE == 65

\* mutant: the run button is never disabled
RunButtonNeverDisabled(p) == FALSE

\* disabled={isComputing}
RunButtonDisabled(p) == p.isComputing

\* {isComputing && ...}: the progress overlay
OverlayRendered(p) == p.isComputing

\* {hasRun && !isComputing && ...}: the results section with its filters
ResultsRendered(p) == p.hasRun /\ ~p.isComputing

\* matches.filter(...)
FilteredMatches(p) ==
    SelectSeq(p.matches,
              LAMBDA m : /\ ~(m.score < p.minScore)
                         /\ p.filter = "top" => m.score >= TOP_SCORE
                         /\ p.filter = "good" =>
                                m.score >= GOOD_SCORE /\ m.score < TOP_SCORE)

\* what the component renders in state p
Render(p) ==
    [runDisabled |-> RunButtonDisabled(p),
     overlay     |-> OverlayRendered(p),
     results     |-> ResultsRendered(p),
     cards       |-> IF ResultsRendered(p) THEN FilteredMatches(p) ELSE <<>>]

\* a click on the run button: runMatching
ClickRun ==
    /\ ~Render(page).runDisabled
    /\ page.timers < MaxTimers
    /\ page' = [page EXCEPT !.isComputing = TRUE,
                            !.hasRun = FALSE,
                            !.timers = @ + 1]
    /\ UNCHANGED <<creators, hotels, matches, pc, calls, probe>>

\* the callback given to setTimeout runs
TimerFires ==
    /\ page.timers > 0
    /\ page' = [page EXCEPT !.matches = SampleResults,
                            !.isComputing = FALSE,
                            !.hasRun = TRUE,
                            !.timers = @ - 1]
    /\ UNCHANGED <<creators, hotels, matches, pc, calls, probe>>

\* a click on one of the three filter buttons
SetFilter(f) ==
    /\ Render(page).results
    /\ page' = [page EXCEPT !.filter = f]
    /\ UNCHANGED <<creators, hotels, matches, pc, calls, probe>>

\* the minimum-score slider is moved
SetMinScore(v) ==
    /\ Render(page).results
    /\ page' = [page EXCEPT !.minScore = v]
    /\ UNCHANGED <<creators, hotels, matches, pc, calls, probe>>

NextPage ==
    \/ ClickRun
    \/ TimerFires
    \/ \E f \in Filters : SetFilter(f)
    \/ \E v \in SliderMin..SliderMax : SetMinScore(v)

\* the event loop runs a scheduled callback once its delay has passed
SpecPage == Init /\ [][NextPage]_vars /\ WF_vars(TimerFires)

(***************************************************************************)
(* Properties                                                              *)
(***************************************************************************)
Returned == pc = "done"

\* the position of profile p in the collection s
IndexIn(s, p) == CHOOSE i \in DOMAIN s : s[i] = p

\* the place of result m in the order the nested loops generate the pairs
PairIndex(m) ==
    (IndexIn(creators, m.creator) - 1) * Len(hotels) + IndexIn(hotels, m.hotel)

\* the TF-IDF vector of every profile of the call that returned matches, under
\* the idf map of that call
CallVectors ==
    LET all == creators \o hotels
        idf == inverseDocumentFrequency(
                   [i \in DOMAIN all |-> buildProfileText(all[i])])
    IN  [p \in Range(all) |-> tfidfVector(buildProfileText(p), idf)]

\* the cosine similarity and the tag overlap of the pair of result m, V being
\* CallVectors
CosineOf(V, m) == cosineSimilarity(V[m.creator], V[m.hotel])
TagScoreOf(m) == tagOverlapScore(TagsOf(m.creator), TagsOf(m.hotel))

\* C1: computeMatches returns exactly |setA| x |setB| results, one for each
\* pair (a, b) and none pruned or duplicated (the empty sequence when either
\* collection is empty), and every score is an integer in 50..99.
C1_CrossProductInRange ==
    Returned =>
        /\ Len(matches) = Len(creators) * Len(hotels)
        /\ \A i \in DOMAIN creators : \A j \in DOMAIN hotels :
              Cardinality({k \in DOMAIN matches :
                              /\ matches[k].creator = creators[i]
                              /\ matches[k].hotel = hotels[j]})
              = Cardinality({i2 \in DOMAIN creators : creators[i2] = creators[i]})
                * Cardinality({j2 \in DOMAIN hotels : hotels[j2] = hotels[j]})
        /\ \A k \in DOMAIN matches : matches[k].score \in 50..99

\* a call of two creators and two hotels returned four results, the best at
\* the cap and the worst at the floor
C1_Witness ==
    /\ Returned
    /\ Len(creators) = 2 /\ Len(hotels) = 2
    /\ Len(matches) = 4
    /\ matches[1].score = 99
    /\ matches[4].score = 50

\* C2: the returned sequence is sorted descending by score: every result's
\* score is at least the score of the result after it.
C2_SortedDescending ==
    Returned =>
        \A k \in 1..(Len(matches) - 1) : matches[k].score >= matches[k + 1].score

\* the sort moved a pair generated later in front of one generated earlier
C2_Witness ==
    /\ Returned
    /\ \E k, l \in DOMAIN matches :
          /\ k < l
          /\ matches[k].score > matches[l].score
          /\ PairIndex(matches[k]) > PairIndex(matches[l])

\* C3: for every pair, rawScore = 0.6 * textSimilarity + 0.4 * tagScore (to the
\* nearest representable value) and score = min(round(rawScore * 100 + 50), 99),
\* round being the nearest integer with halves up; the result exposes
\* textSimilarity = round(100 * cosine) and tagOverlap = round(100 * tagScore),
\* both in 0..100.
C3_ScoreFormula ==
    Returned =>
        LET V == CallVectors IN
        \A k \in DOMAIN matches :
            LET m   == matches[k]
                cos == CosineOf(V, m)
                tag == TagScoreOf(m)
                y   == 6 * cos + 4 * tag
                \* raw is 0.6 cos + 0.4 tag, to the nearest unit
                raw == CHOOSE r \in ((y \div 10) - 1)..((y \div 10) + 1) :
                          10 * r - 5 <= y /\ y < 10 * r + 5
                x   == 100 * raw + 50 * SCALE
                \* n is raw * 100 + 50, to the nearest integer, halves up
                n   == CHOOSE r \in ((x \div SCALE) - 1)..((x \div SCALE) + 1) :
                          2 * r * SCALE - SCALE <= 2 * x /\ 2 * x < 2 * r * SCALE + SCALE
            IN  /\ m.score = IF n < 99 THEN n ELSE 99
                /\ m.textSimilarity \in 0..100
                /\ 2 * m.textSimilarity * SCALE - SCALE <= 2 * 100 * cos
                /\ 2 * 100 * cos < 2 * m.textSimilarity * SCALE + SCALE
                /\ m.tagOverlap \in 0..100
                /\ 2 * m.tagOverlap * SCALE - SCALE <= 2 * 100 * tag
                /\ 2 * 100 * tag < 2 * m.tagOverlap * SCALE + SCALE

\* one result is cut to the cap of 99 and another lies strictly between the
\* floor and the cap with both sub-scores strictly between 0 and 100
C3_Witness ==
    /\ Returned
    /\ \E k \in DOMAIN matches :
          /\ matches[k].score = 99
          /\ 6 * CosineOf(CallVectors, matches[k]) + 4 * TagScoreOf(matches[k])
                > 5 * SCALE
    /\ \E k \in DOMAIN matches :
          /\ matches[k].score \in 51..98
          /\ matches[k].textSimilarity \in 1..99
          /\ matches[k].tagOverlap \in 1..99
\* the tokens of the description and of the whole scored text of profile p
DescriptionTokens(p) == Range(tokenize(TextField(p, "description")))
TextTokens(p) == Range(tokenize(buildProfileText(p)))

TagsDisjoint(a, b) == LowerTagSet(TagsOf(a)) \cap LowerTagSet(TagsOf(b)) = {}

AtFloor(m) == m.score = 50 /\ m.textSimilarity = 0 /\ m.tagOverlap = 0

WithField(p, f, v) == [x \in DOMAIN p \cup {f} |-> IF x = f THEN v ELSE p[x]]
WithoutField(p, f) == [x \in DOMAIN p \ {f} |-> p[x]]

\* another value for an auxiliary field: "9 spa"
OtherValue == <<"9", " ", "s", "p", "a">>

\* the collection ps with auxiliary field f changed in every profile: given
\* another value (how = "set") or taken away (how = "drop")
Varied(ps, f, how) ==
    [i \in DOMAIN ps |->
        IF how = "set" THEN WithField(ps[i], f, OtherValue)
        ELSE WithoutField(ps[i], f)]

\* the three scores of the result of the pair (a, b) in the list ms
PairScores(ms, a, b) ==
    LET m == CHOOSE r \in Range(ms) : r.creator = a /\ r.hotel = b
    IN  <<m.score, m.textSimilarity, m.tagOverlap>>

\* every pair has the same three scores in matches as in the run whose inputs
\* differ in field f only
SameScoresVarying(f, how) ==
    LET cs2 == Varied(creators, f, how)
        hs2 == Varied(hotels, f, how)
        ms2 == computeMatches(cs2, hs2)
    IN  \A i \in DOMAIN creators : \A j \in DOMAIN hotels :
            PairScores(matches, creators[i], hotels[j])
            = PairScores(ms2, cs2[i], hs2[j])

ScoresOf(ms) == [k \in DOMAIN ms |-> ms[k].score]

\* C6: computeMatches holds no state between calls: however the invocations
\* interleave, the idf map of a call is the one of its own two collections,
\* the result of a call is the function computeMatches of its own two
\* collections, and two calls with identical inputs return identical scores in
\* the identical order.
C6_NoStateBetweenCalls ==
    /\ \A i \in CallIds :
          calls[i].pc \in {"vectors", "pairs", "sort", "done"}
              => calls[i].idf = inverseDocumentFrequency(
                                    AllTexts(calls[i].creators, calls[i].hotels))
    /\ \A i \in CallIds :
          calls[i].pc = "done"
              => calls[i].matches = computeMatches(calls[i].creators, calls[i].hotels)
    /\ \A i, j \in CallIds :
          (/\ calls[i].pc = "done" /\ calls[j].pc = "done"
           /\ calls[i].creators = calls[j].creators
           /\ calls[i].hotels = calls[j].hotels)
              => /\ ScoresOf(calls[i].matches) = ScoresOf(calls[j].matches)
                 /\ calls[i].matches = calls[j].matches

\* an invocation returned two results of different scores while another one,
\* with other inputs and another idf map for a word they share, is under way
C6_Witness ==
    \E i, j \in CallIds :
        /\ calls[i].pc = "done"
        /\ Len(calls[i].matches) = 2
        /\ calls[i].matches[1].score > calls[i].matches[2].score
        /\ calls[j].pc \in {"vectors", "pairs", "sort"}
        /\ <<calls[j].creators, calls[j].hotels>> # <<calls[i].creators, calls[i].hotels>>
        /\ \E w \in DOMAIN calls[i].idf \cap DOMAIN calls[j].idf :
              calls[i].idf[w] # calls[j].idf[w]

\* profile p with each absent one of name, description and tags present and
\* empty
Completed(p) ==
    [f \in DOMAIN p \cup {"name", "description", "tags"} |->
        IF f \in DOMAIN p THEN p[f] ELSE <<>>]

\* C7: a call on partial profiles returns, for every pair, the result it
\* returns when each absent name or description is the empty string and each
\* absent tag list is the empty list: the same score, sub-scores and
\* explanation.
C7_AbsentAsEmpty ==
    Returned =>
        LET cs2 == [i \in DOMAIN creators |-> Completed(creators[i])]
            hs2 == [j \in DOMAIN hotels |-> Completed(hotels[j])]
            ms2 == computeMatches(cs2, hs2)
        IN  /\ Len(ms2) = Len(matches)
            /\ \A k \in DOMAIN matches :
                  /\ ms2[k].creator = Completed(matches[k].creator)
                  /\ ms2[k].hotel = Completed(matches[k].hotel)
                  /\ ms2[k].score = matches[k].score
                  /\ ms2[k].textSimilarity = matches[k].textSimilarity
                  /\ ms2[k].tagOverlap = matches[k].tagOverlap
                  /\ ms2[k].explanation = matches[k].explanation

\* C8: the explanation of every result is non-empty and ends with a period.
C8_ExplanationClosed ==
    Returned =>
        \A k \in DOMAIN matches :
            LET e == matches[k].explanation
            IN  Len(e) > 0 /\ e[Len(e)] = "."

\* the literal text that opens or marks each clause
SharedMark == "Both share interests in "
StrongMark == "'s content style aligns strongly with "
GoodMark == "'s profile shows good alignment with "
EngagementMark == "High engagement rate ("
FallbackMark == "'s creative approach could bring a fresh perspective to "

Occurrences(e, mark) == {i \in DOMAIN e : e[i] = mark}
HasClause(e, mark) == Occurrences(e, mark) # {}
ClauseAt(e, mark) == CHOOSE i \in DOMAIN e : e[i] = mark

\* one explanation is the generic sentence alone and another joins several
\* clauses
C8_Witness ==
    /\ Returned
    /\ \E k \in DOMAIN matches : HasClause(matches[k].explanation, FallbackMark)
    /\ \E k \in DOMAIN matches :
          /\ HasClause(matches[k].explanation, SharedMark)
          /\ HasClause(matches[k].explanation, StrongMark)

\* C9: computeMatches leaves both input collections as they were, element for
\* element, and every result holds one profile of creators and one of hotels.
C9_InputsUntouched ==
    [][(pc = "input" /\ pc' = "done") =>
          /\ creators' = creators
          /\ hotels' = hotels
          /\ \A k \in DOMAIN matches' :
                /\ \E i \in DOMAIN creators : matches'[k].creator = creators[i]
                /\ \E j \in DOMAIN hotels : matches'[k].hotel = hotels[j]]_vars

\* a call on four pairs, one profile partial, returned its results in another
\* order than the collections list them
C9_Witness ==
    /\ Returned
    /\ Len(matches) = 4
    /\ \E i \in DOMAIN creators : "tags" \notin DOMAIN creators[i]
    /\ matches[1].creator # creators[1]
    /\ matches[1].hotel # hotels[1]

\* C10: the explanation holds the shared-labels clause iff the profiles share a
\* tag case-insensitively; the strong alignment clause iff textSimilarity > 0.3
\* and the good one iff 0.15 < textSimilarity <= 0.3; the engagement clause iff
\* the creator's engagement indicator parses as a number > 4; the generic
\* sentence iff none of the others; each at most once, in this order.
C10_ExplanationClauses ==
    Returned =>
        LET V == CallVectors IN
        \A k \in DOMAIN matches :
            LET m      == matches[k]
                e      == m.explanation
                cos    == CosineOf(V, m)
                strong == 10 * cos > 3 * SCALE
                good   == 100 * cos > 15 * SCALE /\ ~strong
                high   == /\ "engagement" \in DOMAIN m.creator
                          /\ ~parseFloat(m.creator.engagement).nan
                          /\ parseFloat(m.creator.engagement).value > 4 * SCALE
                shared == ~TagsDisjoint(m.creator, m.hotel)
            IN  /\ HasClause(e, SharedMark) <=> shared
                /\ HasClause(e, StrongMark) <=> strong
                /\ HasClause(e, GoodMark) <=> good
                /\ HasClause(e, EngagementMark) <=> high
                /\ HasClause(e, FallbackMark) <=> ~(shared \/ strong \/ good \/ high)
                /\ \A mark \in {SharedMark, StrongMark, GoodMark, EngagementMark,
                                FallbackMark} :
                      Cardinality(Occurrences(e, mark)) <= 1
                /\ shared => ClauseAt(e, SharedMark) = 1
                /\ \A mark \in {StrongMark, GoodMark} :
                      (shared /\ HasClause(e, mark))
                          => ClauseAt(e, SharedMark) < ClauseAt(e, mark)
                /\ \A mark \in {SharedMark, StrongMark, GoodMark} :
                      (high /\ HasClause(e, mark))
                          => ClauseAt(e, mark) < ClauseAt(e, EngagementMark)

\* one call explained a pair by all three kinds of clause, one by the good
\* alignment clause and one by the generic sentence
C10_Witness ==
    /\ Returned
    /\ \E k \in DOMAIN matches :
          /\ HasClause(matches[k].explanation, SharedMark)
          /\ HasClause(matches[k].explanation, StrongMark)
          /\ HasClause(matches[k].explanation, EngagementMark)
    /\ \E k \in DOMAIN matches : HasClause(matches[k].explanation, GoodMark)


\* the function f has been applied and has returned
Applied(f) == probe.fn = f /\ probe.done

\* labels that are equal up to the case of their letters
SameLabel(s, t) == toLowerCase(s) = toLowerCase(t)

\* the label c occurs in the list tags, in some case
HasLabel(tags, c) == \E i \in DOMAIN tags : SameLabel(tags[i], c)

\* C11: tagOverlapScore is the case-insensitive Jaccard index of the two label
\* sets: |A' n B'| / |A' u B'| over the lower-cased, de-duplicated labels (to
\* the nearest unit), 0 when the union is empty, within [0, 1], and symmetric;
\* labels differing only in case count as equal.
C11_CaseInsensitiveJaccard ==
    Applied("tagOverlapScore") =>
        LET tagsA   == probe.args[1]
            tagsB   == probe.args[2]
            labels  == {toLowerCase(t) : t \in TagPool}
            overlap == Cardinality({c \in labels : HasLabel(tagsA, c) /\ HasLabel(tagsB, c)})
            union   == Cardinality({c \in labels : HasLabel(tagsA, c) \/ HasLabel(tagsB, c)})
        IN  /\ probe.out \in 0..SCALE
            /\ union = 0 => probe.out = 0
            /\ union > 0 => /\ 2 * (probe.out * union - overlap * SCALE) <= union
                            /\ 2 * (overlap * SCALE - probe.out * union) <= union
            /\ (overlap = union /\ union > 0) => probe.out = SCALE
            /\ tagOverlapScore(tagsB, tagsA) = probe.out

\* two lists that hold a label in different case, one of them twice, and
\* overlap in part
C11_Witness ==
    /\ Applied("tagOverlapScore")
    /\ probe.out \in 1..(SCALE - 1)
    /\ \E i \in DOMAIN probe.args[1] : \E j \in DOMAIN probe.args[2] :
          /\ probe.args[1][i] # probe.args[2][j]
          /\ SameLabel(probe.args[1][i], probe.args[2][j])
    /\ \E i, j \in DOMAIN probe.args[1] :
          i # j /\ SameLabel(probe.args[1][i], probe.args[1][j])

\* the weight of key k in the sparse vector v, 0 for a key it does not hold
WeightOf(v, k) == IF k \in DOMAIN v THEN v[k] ELSE 0

\* the sum of the squares of the weights of v, in SCALE^2 units
SquaredNorm(v) == SumOver(VectorKeys, [k \in VectorKeys |-> WeightOf(v, k) * WeightOf(v, k)])

\* C12: for two sparse vectors with non-negative weights cosineSimilarity
\* returns a value in [0, 1], the dot product over the union of the keys
\* divided by the product of the Euclidean norms, and exactly 0 whenever
\* either vector has norm 0, the empty vector included.
C12_CosineInUnitInterval ==
    Applied("cosineSimilarity") =>
        LET vecA    == probe.args[1]
            vecB    == probe.args[2]
            dot     == SumOver(VectorKeys,
                               [k \in VectorKeys |-> WeightOf(vecA, k) * WeightOf(vecB, k)])
            product == MathSqrt(SquaredNorm(vecA)) * MathSqrt(SquaredNorm(vecB))
        IN  /\ probe.out \in 0..SCALE
            /\ (SquaredNorm(vecA) = 0 \/ SquaredNorm(vecB) = 0) => probe.out = 0
            /\ product > 0 => probe.out = MulDiv(dot, SCALE, product)

\* C13: cosineSimilarity is symmetric, and cosineSimilarity(v, v) = 1 for
\* every non-zero vector v.
C13_CosineSymmetricSelfOne ==
    Applied("cosineSimilarity") =>
        LET vecA == probe.args[1]
            vecB == probe.args[2]
        IN  /\ probe.out # NaN
            /\ cosineSimilarity(vecB, vecA) = probe.out
            /\ (vecA = vecB /\ SquaredNorm(vecA) > 0) => probe.out = SCALE

\* the words of s: its maximal runs of characters that are not whitespace
RECURSIVE WordsOf(_)
WordsOf(s) ==
    IF Len(s) = 0 THEN <<>>
    ELSE IF IsWhitespace(s[1]) THEN WordsOf(Tail(s))
    ELSE LET stops == {i \in DOMAIN s : IsWhitespace(s[i])}
             n     == IF stops = {} THEN Len(s) + 1
                      ELSE CHOOSE i \in stops : \A j \in stops : i <= j
         IN  <<SubSeq(s, 1, n - 1)>> \o WordsOf(SubSeq(s, n, Len(s)))

\* the letters and digits of the word w, the letters in lower case
LettersAndDigits(w) == SelectSeq(toLowerCase(w), LAMBDA c : IsLowerAlnum(c))

\* C14: every token tokenize returns has length >= 2 and consists solely of
\* lowercase letters and digits, and the tokens appear in the order of the
\* words of the input: they are the words, reduced to their letters and
\* digits, that keep at least two characters.
C14_TokensCleanAndOrdered ==
    Applied("tokenize") =>
        LET words == WordsOf(probe.args[1])
            kept  == SelectSeq([i \in DOMAIN words |-> LettersAndDigits(words[i])],
                               LAMBDA w : Len(w) >= 2)
        IN  /\ \A k \in DOMAIN probe.out :
                  /\ Len(probe.out[k]) >= 2
                  /\ \A i \in DOMAIN probe.out[k] :
                        probe.out[k][i] \in Range(LowerLetters) \cup Range(DigitChars)
            /\ probe.out = kept

\* a text with an upper-case letter gave two different tokens
C14_Witness ==
    /\ Applied("tokenize")
    /\ Len(probe.out) = 2
    /\ probe.out[1] # probe.out[2]
    /\ \E i \in DOMAIN probe.args[1] : probe.args[1][i] \in Range(UpperLetters)

\* invocation i has built its idf map and its vectors
VectorsBuilt(i) == calls[i].pc \in {"pairs", "sort", "done"}

\* the profiles of both collections of invocation i, and their token sets
ProfilesOf(i) == calls[i].creators \o calls[i].hotels
TokensOfCall(i) == UNION {TextTokens(ProfilesOf(i)[k]) : k \in DOMAIN ProfilesOf(i)}

\* the number of profiles of invocation i whose text holds the token w
DocumentCount(i, w) ==
    Cardinality({k \in DOMAIN ProfilesOf(i) : w \in TextTokens(ProfilesOf(i)[k])})

\* the vector v has as keys the tokens of the text of profile p that idf
\* holds, each with a weight above 0
KeysAreKnownTokens(v, p, idf) ==
    /\ DOMAIN v = TextTokens(p) \cap DOMAIN idf
    /\ \A w \in DOMAIN v : v[w] > 0

\* C15: within one call the idf map is built over the texts of all profiles of
\* both collections; every token in it has idf = ln(N / df) + 1 >= 1, exactly
\* 1 when the token occurs in every document; every profile's vector has as
\* keys exactly the tokens of its text that idf holds, each with a strictly
\* positive weight; a token absent from idf (a profile of another call) is
\* dropped.
C15_IdfAndVectors ==
    \A i \in CallIds :
        VectorsBuilt(i) =>
            LET idf == calls[i].idf
                N   == Len(ProfilesOf(i))
                built == calls[i].creatorVectors \o calls[i].hotelVectors
            IN  /\ DOMAIN idf = TokensOfCall(i)
                /\ \A w \in DOMAIN idf :
                      /\ idf[w] = LnTable[N] - LnTable[DocumentCount(i, w)] + SCALE
                      /\ idf[w] >= SCALE
                      /\ DocumentCount(i, w) = N => idf[w] = SCALE
                /\ Len(built) = N
                /\ \A k \in DOMAIN built :
                      /\ built[k].profile = ProfilesOf(i)[k]
                      /\ KeysAreKnownTokens(built[k].vector, built[k].profile, idf)
                /\ KeysAreKnownTokens(tfidfVector(buildProfileText(CreatorBo), idf),
                                      CreatorBo, idf)

(***************************************************************************)
(* C16: of two pairs with the same text similarity, the one whose tag      *)
(* overlap is larger has a raw score that is not smaller, and a display    *)
(* score that is not smaller.                                              *)
(***************************************************************************)
C16_MonotoneInTagOverlap ==
    Applied("score") =>
        LET tagA == probe.args[2]
            tagB == probe.args[3]
            first == probe.out[1]
            second == probe.out[2]
        IN  tagA <= tagB =>
                /\ first.score <= second.score
                /\ first.percentage <= second.percentage

\* a larger overlap that raises the raw score and the display score, and
\* the text similarity is neither 0 nor 1
C16_Witness ==
    /\ Applied("score")
    /\ probe.args[1] \notin {0, SCALE}
    /\ probe.args[2] < probe.args[3]
    /\ probe.out[1].score < probe.out[2].score
    /\ probe.out[1].percentage < probe.out[2].percentage
    /\ probe.out[2].percentage < MAX_DISPLAY_SCORE

(***************************************************************************)
(* C17: results of equal score keep the order in which their pairs were    *)
(* generated: for results at positions k < l with the same score, the pair *)
(* of the first precedes the pair of the second in the order (index in the *)
(* first collection, index in the second collection).                      *)
(***************************************************************************)
C17_TiesKeepGenerationOrder ==
    Returned =>
        \A k, l \in DOMAIN matches :
            (k < l /\ matches[k].score = matches[l].score) =>
                \/ IndexIn(creators, matches[k].creator)
                       < IndexIn(creators, matches[l].creator)
                \/ /\ matches[k].creator = matches[l].creator
                   /\ IndexIn(hotels, matches[k].hotel)
                          < IndexIn(hotels, matches[l].hotel)

\* two ties in one result: one between pairs of different creators, and one
\* between two hotels of one creator; a pair of another score was generated
\* between two equal ones
C17_Witness ==
    /\ Returned
    /\ \E k, l \in DOMAIN matches :
          /\ k < l
          /\ matches[k].score = matches[l].score
          /\ matches[k].creator # matches[l].creator
    /\ \E k, l \in DOMAIN matches :
          /\ k < l
          /\ matches[k].score = matches[l].score
          /\ matches[k].creator = matches[l].creator
    /\ \E k, l, j \in DOMAIN matches :
          /\ matches[k].score = matches[l].score
          /\ matches[j].score # matches[k].score
          /\ PairIndex(matches[k]) < PairIndex(matches[j])
          /\ PairIndex(matches[j]) < PairIndex(matches[l])

\* the blend 0.6 * textSimilarity + 0.4 * tagScore of the pair of result m,
\* before it is shifted, rounded and capped; V is CallVectors
BlendOf(V, m) == RawScore(CosineOf(V, m), TagScoreOf(m))

(***************************************************************************)
(* C18: for any two results of one call, a strictly higher score implies a *)
(* strictly higher blend 0.6 * textSimilarity + 0.4 * tagScore: rounding   *)
(* and the cap at 99 merge pairs into ties and never invert them.          *)
(***************************************************************************)
C18_RankingFollowsBlend ==
    Returned =>
        LET V == CallVectors
        IN  \A k, l \in DOMAIN matches :
                matches[k].score > matches[l].score =>
                    BlendOf(V, matches[k]) > BlendOf(V, matches[l])

\* one result holds two pairs of different scores, one of them at the cap,
\* and two pairs of different blends that the rounding merged into a tie
C18_Witness ==
    /\ Returned
    /\ LET V == CallVectors
       IN  /\ \E k, l \in DOMAIN matches :
                 /\ matches[k].score = MAX_DISPLAY_SCORE
                 /\ matches[k].score > matches[l].score
           /\ \E k, l \in DOMAIN matches :
                 /\ matches[k].score = matches[l].score
                 /\ BlendOf(V, matches[k]) # BlendOf(V, matches[l])

\* a run was started and its callback has not run yet
RunPending == page.timers > 0

(***************************************************************************)
(* C19: over any sequence of run clicks and timer firings, a run is        *)
(* started only while isComputing is false, so at most one delayed call is *)
(* pending; isComputing is true exactly while one is pending; hasRun and   *)
(* isComputing are never both true; the results are rendered only when     *)
(* hasRun is true and isComputing is false; and every started run          *)
(* eventually fires, stores the result of computeMatches in matches and    *)
(* sets hasRun.                                                            *)
(***************************************************************************)
C19_RunProtocol ==
    /\ [][page'.timers > page.timers => ~page.isComputing]_vars
    /\ [](page.timers <= 1)
    /\ [](page.isComputing <=> page.timers = 1)
    /\ [](~(page.hasRun /\ page.isComputing))
    /\ [](Render(page).results => page.hasRun /\ ~page.isComputing)
    /\ [][(RunPending /\ page'.timers < page.timers) =>
              /\ page'.matches = SampleResults
              /\ page'.hasRun
              /\ ~page'.isComputing]_vars
    /\ (RunPending ~> (~RunPending /\ page.hasRun /\ page.matches = SampleResults))

\* a second run is pending: the results of the first are stored, the overlay
\* is shown in place of the results, and the filters were changed in between
C19_Witness ==
    /\ RunPending
    /\ page.isComputing
    /\ ~page.hasRun
    /\ page.matches = SampleResults
    /\ Len(page.matches) = Len(SampleCreators) * Len(SampleHotels)
    /\ page.filter = "top"
    /\ page.minScore > SliderMin
    /\ Render(page).overlay
    /\ ~Render(page).results

=============================================================================
